---------------------------- MODULE Spec2Model ----------------------------
(***************************************************************************)
(* Fake-Product-Review-Monitoring-and-Removal-System: the heuristic review *)
(* scorer (model.py, class FakeReviewDetector) and the in-memory review    *)
(* store of the HTTP layer (api/index.py).                                 *)
(*                                                                         *)
(* A text is a sequence of one-character strings, so that len, count,      *)
(* split, lower, isupper, substring search and the regular expressions are *)
(* computed character by character as Python computes them.  A confidence  *)
(* is kept in hundredths before round(confidence, 1) and in tenths after.  *)
(* A polarity is kept in tenths.                                           *)
(***************************************************************************)
EXTENDS Integers, Sequences, FiniteSets, TLC

(***************************************************************************)
(* Bounds of the model.                                                    *)
(***************************************************************************)
\* a generated review text is the concatenation of at most MaxFrags fragments
MaxFrags == 2
\* ratings range over (1 - RatingSlack)..(5 + RatingSlack)
RatingSlack == 2
\* number of analyze_review calls that may be in flight on one detector
NumCalls == 2
\* _calculate_prediction is applied to every score in -MaxAbsScore..MaxAbsScore
MaxAbsScore == 250
\* reviews_storage holds at most MaxStored reviews
MaxStored == 3
\* an analyze-batch request carries at most MaxBatch reviews
MaxBatch == 2

(***************************************************************************)
(* Python str and list primitives.                                         *)
(***************************************************************************)
UpperCase ==
    <<"A","B","C","D","E","F","G","H","I","J","K","L","M",
      "N","O","P","Q","R","S","T","U","V","W","X","Y","Z">>

LowerCase ==
    <<"a","b","c","d","e","f","g","h","i","j","k","l","m",
      "n","o","p","q","r","s","t","u","v","w","x","y","z">>

Uppers == {UpperCase[i] : i \in 1..26}

Lowers == {LowerCase[i] : i \in 1..26}

Whitespace == {" ", "\t", "\n", "\r", "\f"}

Min(a, b) == IF a < b THEN a ELSE b

Max(a, b) == IF a > b THEN a ELSE b

LowerOf == [ch \in Uppers |-> LowerCase[CHOOSE i \in 1..26 : UpperCase[i] = ch]]

\* one character of str.lower()
CharLower(ch) == IF ch \in Uppers THEN LowerOf[ch] ELSE ch

\* str.lower()
StrLower(s) == [i \in 1..Len(s) |-> CharLower(s[i])]

\* str.count(ch) for a one-character ch
Count(s, ch) == Cardinality({i \in 1..Len(s) : s[i] = ch})

\* sub in s
Contains(s, sub) ==
    \E i \in 0..(Len(s) - Len(sub)) : \A j \in 1..Len(sub) : s[i + j] = sub[j]

\* str.isupper(): at least one cased character and no lower-case one
IsUpper(w) ==
    /\ \E i \in 1..Len(w) : w[i] \in Uppers
    /\ \A i \in 1..Len(w) : w[i] \notin Lowers

\* the positions where a word starts: a non-whitespace character at the
\* start of s or after a whitespace character
WordStarts(s) ==
    SelectSeq([i \in 1..Len(s) |-> i],
              LAMBDA i : s[i] \notin Whitespace /\ (i = 1 \/ s[i - 1] \in Whitespace))

\* the position where the word that starts at i ends
WordEnd(s, i) ==
    CHOOSE j \in i..Len(s) :
        /\ j = Len(s) \/ s[j + 1] \in Whitespace
        /\ \A k \in i..(j - 1) : s[k + 1] \notin Whitespace

\* str.split(): the maximal runs of non-whitespace characters, in order
Split(s) ==
    LET starts == WordStarts(s)
    IN  [k \in 1..Len(starts) |-> SubSeq(s, starts[k], WordEnd(s, starts[k]))]

\* seq[:n]
Take(seq, n) == SubSeq(seq, 1, Min(n, Len(seq)))

\* the Python string spelled by a sequence of characters
RECURSIVE Str(_)
Str(s) == IF s = <<>> THEN "" ELSE Head(s) \o Str(Tail(s))

\* ", ".join(strs) for a list of character sequences
RECURSIVE Join(_)
Join(strs) ==
    IF strs = <<>> THEN ""
    ELSE IF Len(strs) = 1 THEN Str(strs[1])
    ELSE Str(strs[1]) \o ", " \o Join(Tail(strs))

\* The strings a pattern of spam_patterns matches: a pattern is a sequence of
\* literal characters, escaped characters (\c) and optional one-character
\* classes ([c]?), the only regular-expression syntax the patterns use.
RECURSIVE RegexLanguage(_)
RegexLanguage(p) ==
    IF p = <<>> THEN {<<>>}
    ELSE IF p[1] = "\\"
    THEN {<<p[2]>> \o r : r \in RegexLanguage(SubSeq(p, 3, Len(p)))}
    ELSE IF p[1] = "[" /\ Len(p) >= 4 /\ p[3] = "]" /\ p[4] = "?"
    THEN LET rest == RegexLanguage(SubSeq(p, 5, Len(p)))
         IN  rest \cup {<<p[2]>> \o r : r \in rest}
    ELSE {<<p[1]>> \o r : r \in RegexLanguage(Tail(p))}

\* re.search(pattern, text, re.IGNORECASE), given the case-folded text:
\* ignoring case is comparing the case-folded pattern and text
ReSearchIgnoreCase(pattern, folded_text) ==
    \E w \in RegexLanguage(pattern) : Contains(folded_text, StrLower(w))

\* re.findall(r'(.)\1{4,}', text) is non-empty: five equal consecutive
\* characters, where "." matches any character but a newline
HasRepeatedChars(text) ==
    \E i \in 1..(Len(text) - 4) :
        text[i] # "\n" /\ \A j \in 1..4 : text[i + j] = text[i]

(***************************************************************************)
(* FakeReviewDetector.__init__: the detector configuration.                *)
(***************************************************************************)
FakeReviewDetector ==
    [generic_phrases |->
        <<<<"b","e","s","t"," ","p","r","o","d","u","c","t"," ","e","v","e","r">>, <<"h","i","g","h","l","y"," ","r","e","c","o","m","m","e","n","d">>, <<"a","m","a","z","i","n","g"," ","p","r","o","d","u","c","t">>,
          <<"m","u","s","t"," ","b","u","y">>, <<"l","i","f","e"," ","c","h","a","n","g","i","n","g">>, <<"p","e","r","f","e","c","t">>, <<"a","w","e","s","o","m","e">>,
          <<"e","x","c","e","l","l","e","n","t">>, <<"w","o","r","s","t"," ","e","v","e","r">>, <<"t","e","r","r","i","b","l","e"," ","p","r","o","d","u","c","t">>, <<"w","a","s","t","e"," ","o","f"," ","m","o","n","e","y">>,
          <<"d","o","n","'","t"," ","b","u","y">>, <<"s","a","v","e"," ","y","o","u","r"," ","m","o","n","e","y">>, <<"t","o","t","a","l"," ","s","c","a","m">>>>,
     spam_patterns |->
        <<<<"h","t","t","p","[","s","]","?",":","/","/">>, <<"w","w","w","\\",".">>, <<"\\",".","c","o","m">>, <<"c","l","i","c","k"," ","h","e","r","e">>, <<"b","u","y"," ","n","o","w">>,
          <<"l","i","m","i","t","e","d"," ","o","f","f","e","r">>, <<"d","i","s","c","o","u","n","t"," ","c","o","d","e">>>>,
     positive_words |->
        <<<<"g","o","o","d">>, <<"g","r","e","a","t">>, <<"e","x","c","e","l","l","e","n","t">>, <<"l","o","v","e">>, <<"b","e","s","t">>, <<"a","m","a","z","i","n","g">>,
          <<"w","o","n","d","e","r","f","u","l">>, <<"f","a","n","t","a","s","t","i","c">>, <<"p","e","r","f","e","c","t">>, <<"a","w","e","s","o","m","e">>, <<"o","u","t","s","t","a","n","d","i","n","g">>>>,
     negative_words |->
        <<<<"b","a","d">>, <<"p","o","o","r">>, <<"t","e","r","r","i","b","l","e">>, <<"w","o","r","s","t">>, <<"h","a","t","e">>, <<"d","i","s","a","p","p","o","i","n","t","e","d">>,
          <<"a","w","f","u","l">>, <<"h","o","r","r","i","b","l","e">>, <<"u","s","e","l","e","s","s">>, <<"w","a","s","t","e">>, <<"r","e","g","r","e","t">>>>]

\* the features dict of a new call
NewFeatures ==
    [suspicious_patterns |-> <<>>, positive_indicators |-> <<>>, warnings |-> <<>>]

(***************************************************************************)
(* The detectors.  Each returns [ret, features]: the value the method      *)
(* returns and the features dict as the method leaves it.                  *)
(***************************************************************************)
\* faulty variant: a text of exactly 100 characters counts as detailed
_analyze_length_inclusive(self, text, features) ==
    LET length == Len(text)
    IN  IF length < 20
        THEN [ret |-> 30,
              features |-> [features EXCEPT !.suspicious_patterns =
                                Append(@, "Very short review")]]
        ELSE IF length >= 100
        THEN [ret |-> -10,
              features |-> [features EXCEPT !.positive_indicators =
                                Append(@, "Detailed review")]]
        ELSE [ret |-> 0, features |-> features]

_analyze_length(self, text, features) ==
    LET length == Len(text)
    IN  IF length < 20
        THEN [ret |-> 30,
              features |-> [features EXCEPT !.suspicious_patterns =
                                Append(@, "Very short review")]]
        ELSE IF length > 100
        THEN [ret |-> -10,
              features |-> [features EXCEPT !.positive_indicators =
                                Append(@, "Detailed review")]]
        ELSE [ret |-> 0, features |-> features]

_analyze_punctuation(self, text, features) ==
    LET exclamation_count == Count(text, "!")
        question_count == Count(text, "?")
        f1 == IF exclamation_count > 3
              THEN [features EXCEPT !.suspicious_patterns =
                       Append(@, "Excessive exclamation marks ("
                                  \o ToString(exclamation_count) \o ")")]
              ELSE features
        s1 == IF exclamation_count > 3 THEN 20 ELSE 0
        f2 == IF question_count > 3
              THEN [f1 EXCEPT !.suspicious_patterns =
                       Append(@, "Too many questions ("
                                  \o ToString(question_count) \o ")")]
              ELSE f1
        s2 == IF question_count > 3 THEN s1 + 10 ELSE s1
    IN  [ret |-> s2, features |-> f2]

_analyze_capitalization(self, text, features) ==
    LET words == Split(text)
        caps_words == SelectSeq(words, LAMBDA w : IsUpper(w) /\ Len(w) > 3)
    IN  IF Len(caps_words) > 2
        THEN [ret |-> 15,
              features |-> [features EXCEPT !.suspicious_patterns =
                                Append(@, "Excessive capitalization ("
                                           \o ToString(Len(caps_words)) \o " words)")]]
        ELSE [ret |-> 0, features |-> features]

\* faulty variant: two phrases already count as multiple
_detect_generic_phrases_two(self, text, features) ==
    LET text_lower == StrLower(text)
        found_phrases ==
            SelectSeq(self.generic_phrases, LAMBDA phrase : Contains(text_lower, phrase))
    IN  IF Len(found_phrases) > 1
        THEN [ret |-> 25,
              features |-> [features EXCEPT !.suspicious_patterns =
                                Append(@, "Multiple generic phrases: "
                                           \o Join(Take(found_phrases, 3)))]]
        ELSE IF Len(found_phrases) > 0
        THEN [ret |-> 10,
              features |-> [features EXCEPT !.warnings =
                                Append(@, "Generic phrase detected: "
                                           \o Str(found_phrases[1]))]]
        ELSE [ret |-> 0, features |-> features]

\* faulty variant: a single phrase scores 25 as well, and still only warns
_detect_generic_phrases_flat(self, text, features) ==
    LET text_lower == StrLower(text)
        found_phrases ==
            SelectSeq(self.generic_phrases, LAMBDA phrase : Contains(text_lower, phrase))
    IN  IF Len(found_phrases) > 2
        THEN [ret |-> 25,
              features |-> [features EXCEPT !.suspicious_patterns =
                                Append(@, "Multiple generic phrases: "
                                           \o Join(Take(found_phrases, 3)))]]
        ELSE IF Len(found_phrases) > 0
        THEN [ret |-> 25,
              features |-> [features EXCEPT !.warnings =
                                Append(@, "Generic phrase detected: "
                                           \o Str(found_phrases[1]))]]
        ELSE [ret |-> 0, features |-> features]

_detect_generic_phrases(self, text, features) ==
    LET text_lower == StrLower(text)
        found_phrases ==
            SelectSeq(self.generic_phrases, LAMBDA phrase : Contains(text_lower, phrase))
    IN  IF Len(found_phrases) > 2
        THEN [ret |-> 25,
              features |-> [features EXCEPT !.suspicious_patterns =
                                Append(@, "Multiple generic phrases: "
                                           \o Join(Take(found_phrases, 3)))]]
        ELSE IF Len(found_phrases) > 0
        THEN [ret |-> 10,
              features |-> [features EXCEPT !.warnings =
                                Append(@, "Generic phrase detected: "
                                           \o Str(found_phrases[1]))]]
        ELSE [ret |-> 0, features |-> features]

\* faulty variant: a failure of the analyzer counts as polarity -1
TextBlobPolarity_negative(blob) == IF blob.ok THEN blob.polarity ELSE -10

\* try: TextBlob(text).sentiment.polarity / except: 0.  blob is what the
\* TextBlob library does on the text: it answers a polarity or it raises.
TextBlobPolarity(blob) == IF blob.ok THEN blob.polarity ELSE 0

\* sum(1 for word in words if word in text_lower)
CountIn(words, text_lower) ==
    Len(SelectSeq(words, LAMBDA word : Contains(text_lower, word)))

\* faulty variant: only the ratings 4, 5 and 1, 2 reach the mismatch branches
_analyze_sentiment_in_range(self, text, blob, rating, features) ==
    LET text_lower == StrLower(text)
        pos_count == CountIn(self.positive_words, text_lower)
        neg_count == CountIn(self.negative_words, text_lower)
        polarity == TextBlobPolarity(blob)
    IN  IF rating \in 4..5 /\ (neg_count > pos_count \/ polarity < -2)
        THEN [ret |-> 35,
              features |-> [features EXCEPT !.suspicious_patterns =
                  Append(@, "Rating-content mismatch (high rating, negative content)")]]
        ELSE IF rating \in 1..2 /\ (pos_count > neg_count \/ polarity > 2)
        THEN [ret |-> 35,
              features |-> [features EXCEPT !.suspicious_patterns =
                  Append(@, "Rating-content mismatch (low rating, positive content)")]]
        ELSE [ret |-> 0,
              features |-> [features EXCEPT !.positive_indicators =
                  Append(@, "Rating matches sentiment")]]

_analyze_sentiment(self, text, blob, rating, features) ==
    LET text_lower == StrLower(text)
        pos_count == CountIn(self.positive_words, text_lower)
        neg_count == CountIn(self.negative_words, text_lower)
        polarity == TextBlobPolarity(blob)
    IN  IF rating >= 4 /\ (neg_count > pos_count \/ polarity < -2)
        THEN [ret |-> 35,
              features |-> [features EXCEPT !.suspicious_patterns =
                  Append(@, "Rating-content mismatch (high rating, negative content)")]]
        ELSE IF rating <= 2 /\ (pos_count > neg_count \/ polarity > 2)
        THEN [ret |-> 35,
              features |-> [features EXCEPT !.suspicious_patterns =
                  Append(@, "Rating-content mismatch (low rating, positive content)")]]
        ELSE [ret |-> 0,
              features |-> [features EXCEPT !.positive_indicators =
                  Append(@, "Rating matches sentiment")]]

_detect_spam_patterns(self, text, features) ==
    LET folded_text == StrLower(text)
        matched == SelectSeq(self.spam_patterns,
                             LAMBDA pattern : ReSearchIgnoreCase(pattern, folded_text))
        found_patterns ==
            [i \in 1..Len(matched) |-> SelectSeq(matched[i], LAMBDA ch : ch # "\\")]
    IN  IF found_patterns # <<>>
        THEN [ret |-> 40,
              features |-> [features EXCEPT !.suspicious_patterns =
                                Append(@, "Contains promotional content: "
                                           \o Join(Take(found_patterns, 2)))]]
        ELSE [ret |-> 0, features |-> features]

_detect_repeated_chars(self, text, features) ==
    IF HasRepeatedChars(text)
    THEN [ret |-> 20,
          features |-> [features EXCEPT !.suspicious_patterns =
                            Append(@, "Repeated characters detected")]]
    ELSE [ret |-> 0, features |-> features]

\* faulty variant: a high diversity is rewarded with -15
_analyze_word_diversity_reward(self, text, features) ==
    LET words == Split(StrLower(text))
        unique_words == Cardinality({words[i] : i \in 1..Len(words)})
        total_words == Len(words)
    IN  IF total_words < 5
        THEN [ret |-> 0, features |-> features]
        ELSE IF 2 * unique_words < total_words /\ total_words > 20
        THEN [ret |-> 15,
              features |-> [features EXCEPT !.suspicious_patterns =
                                Append(@, "Low vocabulary diversity")]]
        ELSE IF 5 * unique_words > 4 * total_words
        THEN [ret |-> -15,
              features |-> [features EXCEPT !.positive_indicators =
                                Append(@, "High vocabulary diversity")]]
        ELSE [ret |-> 0, features |-> features]

_analyze_word_diversity(self, text, features) ==
    LET words == Split(StrLower(text))
        unique_words == Cardinality({words[i] : i \in 1..Len(words)})
        total_words == Len(words)
    IN  IF total_words < 5
        THEN [ret |-> 0, features |-> features]
        \* diversity_ratio = unique_words / total_words; < 0.5 and > 0.8
        ELSE IF 2 * unique_words < total_words /\ total_words > 20
        THEN [ret |-> 15,
              features |-> [features EXCEPT !.suspicious_patterns =
                                Append(@, "Low vocabulary diversity")]]
        ELSE IF 5 * unique_words > 4 * total_words
        THEN [ret |-> 0,
              features |-> [features EXCEPT !.positive_indicators =
                                Append(@, "High vocabulary diversity")]]
        ELSE [ret |-> 0, features |-> features]

\* faulty variant: a score of exactly 60 is not yet fake
_calculate_prediction_strict(self, score) ==
    LET branch ==
            IF score > 60
            THEN [prediction |-> "fake", confidence |-> Min(9500, 6000 + 50 * score)]
            ELSE IF score >= 30
            THEN [prediction |-> "suspicious", confidence |-> 5000 + 50 * score]
            ELSE [prediction |-> "genuine", confidence |-> 10000 - 200 * score]
    IN  [prediction |-> branch.prediction,
         confidence |-> Max(5000, Min(9900, branch.confidence))]

\* faulty variant: the confidence of the branch is returned without the clamp
_calculate_prediction_unclamped(self, score) ==
    IF score >= 60
    THEN [prediction |-> "fake", confidence |-> Min(9500, 6000 + 50 * score)]
    ELSE IF score >= 30
    THEN [prediction |-> "suspicious", confidence |-> 5000 + 50 * score]
    ELSE [prediction |-> "genuine", confidence |-> 10000 - 200 * score]

\* the pair (prediction, confidence), the confidence in hundredths
_calculate_prediction(self, score) ==
    LET branch ==
            IF score >= 60
            THEN [prediction |-> "fake", confidence |-> Min(9500, 6000 + 50 * score)]
            ELSE IF score >= 30
            THEN [prediction |-> "suspicious", confidence |-> 5000 + 50 * score]
            ELSE [prediction |-> "genuine", confidence |-> 10000 - 200 * score]
    IN  [prediction |-> branch.prediction,
         confidence |-> Max(5000, Min(9900, branch.confidence))]

\* round(confidence, 1): hundredths to tenths, a tie to the even tenth
Round1(h) ==
    LET q == h \div 10
        r == h % 10
    IN  IF r < 5 THEN q
        ELSE IF r > 5 THEN q + 1
        ELSE IF q % 2 = 0 THEN q ELSE q + 1

\* analyze_review as one function of its input: the detectors in order on
\* one score and one features dict, then the prediction
analyze_review(self, review_text, blob, rating) ==
    LET r1 == _analyze_length(self, review_text, NewFeatures)
        r2 == _analyze_punctuation(self, review_text, r1.features)
        r3 == _analyze_capitalization(self, review_text, r2.features)
        r4 == _detect_generic_phrases(self, review_text, r3.features)
        r5 == _analyze_sentiment(self, review_text, blob, rating, r4.features)
        r6 == _detect_spam_patterns(self, review_text, r5.features)
        r7 == _detect_repeated_chars(self, review_text, r6.features)
        r8 == _analyze_word_diversity(self, review_text, r7.features)
        score == r1.ret + r2.ret + r3.ret + r4.ret + r5.ret + r6.ret + r7.ret + r8.ret
        p == _calculate_prediction(self, score)
    IN  [prediction |-> p.prediction,
         confidence |-> Round1(p.confidence),
         score |-> score,
         features |-> r8.features]

(***************************************************************************)
(* Inputs.                                                                 *)
(***************************************************************************)
Example1 ==
    <<"T","h","i","s"," ","i","s"," ","t","h","e"," ","b","e","s","t"," ","p","r","o","d","u",
          "c","t"," ","e","v","e","r","!"," ","I"," ","l","o","v","e"," ","i","t","!"," ","H","i",
          "g","h","l","y"," ","r","e","c","o","m","m","e","n","d"," ","t","o"," ","e","v","e","r",
          "y","o","n","e","!","!","!">>

Example2 == <<"o","k">>

Example3 ==
    <<"A","r","r","i","v","e","d"," ","o","n"," ","t","i","m","e",","," ","p","a","c","k","a",
          "g","i","n","g"," ","w","a","s"," ","f","i","n","e",","," ","w","o","r","k","s"," ","a",
          "s"," ","d","e","s","c","r","i","b","e","d",","," ","w","o","u","l","d"," ","c","o","n",
          "s","i","d","e","r"," ","b","u","y","i","n","g"," ","a","g","a","i","n"," ","f","o","r",
          " ","t","h","e"," ","p","r","i","c","e",".">>

\* texts of 19, 20, 100 and 101 characters
Filler(n) == [i \in 1..n |-> IF i % 4 = 0 THEN " " ELSE LowerCase[1 + (i % 26)]]

Fragments ==
    <<<<"e","x","c","e","l","l","e","n","t"," ","v","a","l","u","e"," ">>,
      <<"L","O","U","D"," ","C","A","P","S"," ","W","O","R","D","S"," ">>,
      <<"p","e","r","f","e","c","t","!","!","!","!"," ">>,
      <<"w","h","y","?","?","?","?"," ">>,
      <<"t","e","r","r","i","b","l","e"," ","w","a","s","t","e"," ">>,
      <<"b","u","y"," ","n","o","w"," ","w","w","w",".","x",".","c","o","m"," ">>,
      <<"s","o","o","o","o","o"," ">>,
      <<"t","h","e"," ","t","h","e"," ","t","h","e"," ","t","h","e"," ","t","h","e"," ","t","h",
          "e"," ","t","h","e"," ","t","h","e"," ","t","h","e"," ","t","h","e"," ","t","h","e"," ">>,
      <<"b","e","s","t"," ","p","r","o","d","u","c","t"," ","e","v","e","r"," ","h","i","g","h",
          "l","y"," ","r","e","c","o","m","m","e","n","d"," ","a","w","e","s","o","m","e"," ">>,
      Example3 \o <<" ">> >>

\* the non-decreasing index sequences of at most n fragments
RECURSIVE FragmentChoices(_)
FragmentChoices(n) ==
    IF n = 0 THEN {<<>>}
    ELSE LET shorter == FragmentChoices(n - 1)
         IN  shorter \cup
             {Append(s, k) : s \in {x \in shorter : Len(x) = n - 1},
                             k \in 1..Len(Fragments)}

RECURSIVE Concat(_)
Concat(ix) == IF ix = <<>> THEN <<>> ELSE Fragments[Head(ix)] \o Concat(Tail(ix))

IsSorted(ix) == \A i \in 1..(Len(ix) - 1) : ix[i] <= ix[i + 1]

Texts ==
    {Example1, Example2, Example3, Filler(19), Filler(20), Filler(100), Filler(101)}
    \cup {Concat(ix) : ix \in {x \in FragmentChoices(MaxFrags) : IsSorted(x)}}

Ratings == (1 - RatingSlack)..(5 + RatingSlack)

\* what TextBlob does on a text: a polarity in tenths, or an exception.  The
\* library is outside the repository: any of these answers may come with any
\* text, and the same text always gets the answer that came with it.
Blobs ==
    {[ok |-> TRUE, polarity |-> p] : p \in {-3, -2, 2, 3}}
    \cup {[ok |-> FALSE, polarity |-> 0]}

Calls == 1..NumCalls

\* the inputs of the calls that run concurrently
ConcInputs ==
    {[text |-> Example2, rating |-> 3, blob |-> [ok |-> TRUE, polarity |-> 2]],
     [text |-> Example1, rating |-> 1, blob |-> [ok |-> TRUE, polarity |-> 3]],
     [text |-> Fragments[6] \o Fragments[7], rating |-> 5,
      blob |-> [ok |-> FALSE, polarity |-> 0]]}

(***************************************************************************)
(* State.                                                                  *)
(***************************************************************************)
VARIABLES
    detector,       \* the FakeReviewDetector instance the calls run on
    pc,             \* pc[c]: where call c of analyze_review stands
    review_text,    \* review_text[c], rating[c]: the arguments of call c
    rating,
    blob,           \* blob[c]: what TextBlob does on review_text[c]
    score,          \* score[c], features[c]: the locals of call c
    features,
    prediction,     \* prediction[c], confidence[c]: set by line 96
    confidence,
    result,         \* result[c]: the dict call c returned
    reviews_storage, \* api/index.py: the global list
    response        \* api/index.py: the status of the last response

callVars ==
    <<pc, review_text, rating, blob, score, features, prediction, confidence, result>>

apiVars == <<reviews_storage, response>>

vars == <<detector, callVars, apiVars>>

NoBlob == [ok |-> TRUE, polarity |-> 0]

NoResult == [prediction |-> "", confidence |-> 0, score |-> 0, features |-> NewFeatures]

IdleCalls ==
    /\ pc = [c \in Calls |-> "idle"]
    /\ review_text = [c \in Calls |-> <<>>]
    /\ rating = [c \in Calls |-> 0]
    /\ blob = [c \in Calls |-> NoBlob]
    /\ score = [c \in Calls |-> 0]
    /\ features = [c \in Calls |-> NewFeatures]
    /\ prediction = [c \in Calls |-> ""]
    /\ confidence = [c \in Calls |-> 0]
    /\ result = [c \in Calls |-> NoResult]

Init ==
    /\ detector = FakeReviewDetector
    /\ IdleCalls
    /\ reviews_storage = <<>>
    /\ response = 0

(***************************************************************************)
(* analyze_review, statement by statement.                                 *)
(***************************************************************************)
\* lines 53-69: the call is entered, score = 0 and features is a new dict
Call(c, text, r, b) ==
    /\ pc[c] = "idle"
    /\ pc' = [pc EXCEPT ![c] = "length"]
    /\ review_text' = [review_text EXCEPT ![c] = text]
    /\ rating' = [rating EXCEPT ![c] = r]
    /\ blob' = [blob EXCEPT ![c] = b]
    /\ score' = [score EXCEPT ![c] = 0]
    /\ features' = [features EXCEPT ![c] = NewFeatures]
    /\ UNCHANGED <<detector, prediction, confidence, result, apiVars>>

\* faulty variant: the score is one accumulator of the detector instance,
\* shared by the calls that run on it
Accumulate_shared(c, r, next) ==
    /\ score' = [k \in Calls |-> score[c] + r.ret]
    /\ features' = [features EXCEPT ![c] = r.features]
    /\ pc' = [pc EXCEPT ![c] = next]
    /\ UNCHANGED <<detector, review_text, rating, blob, prediction, confidence,
                   result, apiVars>>

\* score += <detector>(...): the returned value is added to the call's score
\* and the features dict is left as the detector mutated it
Accumulate(c, r, next) ==
    /\ score' = [score EXCEPT ![c] = @ + r.ret]
    /\ features' = [features EXCEPT ![c] = r.features]
    /\ pc' = [pc EXCEPT ![c] = next]
    /\ UNCHANGED <<detector, review_text, rating, blob, prediction, confidence,
                   result, apiVars>>

Feature1(c) ==
    /\ pc[c] = "length"
    /\ Accumulate(c, _analyze_length(detector, review_text[c], features[c]),
                  "punctuation")

Feature2(c) ==
    /\ pc[c] = "punctuation"
    /\ Accumulate(c, _analyze_punctuation(detector, review_text[c], features[c]),
                  "capitalization")

Feature3(c) ==
    /\ pc[c] = "capitalization"
    /\ Accumulate(c, _analyze_capitalization(detector, review_text[c], features[c]),
                  "generic")

Feature4(c) ==
    /\ pc[c] = "generic"
    /\ Accumulate(c, _detect_generic_phrases(detector, review_text[c], features[c]),
                  "sentiment")

Feature5(c) ==
    /\ pc[c] = "sentiment"
    /\ Accumulate(c, _analyze_sentiment(detector, review_text[c], blob[c], rating[c],
                                        features[c]),
                  "spam")

Feature6(c) ==
    /\ pc[c] = "spam"
    /\ Accumulate(c, _detect_spam_patterns(detector, review_text[c], features[c]),
                  "repeated")

Feature7(c) ==
    /\ pc[c] = "repeated"
    /\ Accumulate(c, _detect_repeated_chars(detector, review_text[c], features[c]),
                  "diversity")

Feature8(c) ==
    /\ pc[c] = "diversity"
    /\ Accumulate(c, _analyze_word_diversity(detector, review_text[c], features[c]),
                  "predict")

\* line 96
Predict(c) ==
    /\ pc[c] = "predict"
    /\ LET p == _calculate_prediction(detector, score[c])
       IN  /\ prediction' = [prediction EXCEPT ![c] = p.prediction]
           /\ confidence' = [confidence EXCEPT ![c] = p.confidence]
    /\ pc' = [pc EXCEPT ![c] = "return"]
    /\ UNCHANGED <<detector, review_text, rating, blob, score, features, result,
                   apiVars>>

\* lines 98-103
Return(c) ==
    /\ pc[c] = "return"
    /\ result' = [result EXCEPT ![c] =
                     [prediction |-> prediction[c],
                      confidence |-> Round1(confidence[c]),
                      score |-> score[c],
                      features |-> features[c]]]
    /\ pc' = [pc EXCEPT ![c] = "done"]
    /\ UNCHANGED <<detector, review_text, rating, blob, score, features, prediction,
                   confidence, apiVars>>

\* the caller has read the returned dict; the call's frame is gone
Finish(c) ==
    /\ pc[c] = "done"
    /\ pc' = [pc EXCEPT ![c] = "idle"]
    /\ review_text' = [review_text EXCEPT ![c] = <<>>]
    /\ rating' = [rating EXCEPT ![c] = 0]
    /\ blob' = [blob EXCEPT ![c] = NoBlob]
    /\ score' = [score EXCEPT ![c] = 0]
    /\ features' = [features EXCEPT ![c] = NewFeatures]
    /\ prediction' = [prediction EXCEPT ![c] = ""]
    /\ confidence' = [confidence EXCEPT ![c] = 0]
    /\ result' = [result EXCEPT ![c] = NoResult]
    /\ UNCHANGED <<detector, apiVars>>

Step(c) ==
    \/ Feature1(c)
    \/ Feature2(c)
    \/ Feature3(c)
    \/ Feature4(c)
    \/ Feature5(c)
    \/ Feature6(c)
    \/ Feature7(c)
    \/ Feature8(c)
    \/ Predict(c)
    \/ Return(c)
    \/ Finish(c)

\* a caller calls analyze_review(text, r)
Enter(c) ==
    /\ pc[c] = "idle"
    /\ \E text \in Texts, r \in Ratings, b \in Blobs : Call(c, text, r, b)

\* one call at a time, on every input
Next ==
    \/ Enter(1)
    \/ Step(1)

Spec == Init /\ [][Next]_vars

(***************************************************************************)
(* _calculate_prediction alone, on every score of a range.                 *)
(***************************************************************************)
Scores == (0 - MaxAbsScore)..MaxAbsScore

InitPredict ==
    /\ detector = FakeReviewDetector
    /\ pc = [c \in Calls |-> IF c = 1 THEN "predict" ELSE "idle"]
    /\ score \in {[c \in Calls |-> IF c = 1 THEN s ELSE 0] : s \in Scores}
    /\ review_text = [c \in Calls |-> <<>>]
    /\ rating = [c \in Calls |-> 0]
    /\ blob = [c \in Calls |-> NoBlob]
    /\ features = [c \in Calls |-> NewFeatures]
    /\ prediction = [c \in Calls |-> ""]
    /\ confidence = [c \in Calls |-> 0]
    /\ result = [c \in Calls |-> NoResult]
    /\ reviews_storage = <<>>
    /\ response = 0

NextPredict ==
    \/ Predict(1)
    \/ Return(1)

SpecPredict == InitPredict /\ [][NextPredict]_vars

(***************************************************************************)
(* Several calls of analyze_review on one detector, their statements       *)
(* interleaved in any order; a finished call may be followed by another.   *)
(***************************************************************************)
EnterConc(c) ==
    /\ pc[c] = "idle"
    /\ \E in \in ConcInputs : Call(c, in.text, in.rating, in.blob)

NextConc ==
    \E c \in Calls :
        \/ EnterConc(c)
        \/ Step(c)

SpecConcurrent == Init /\ [][NextConc]_vars

(***************************************************************************)
(* api/index.py: the handlers that write reviews_storage.  A handler runs  *)
(* from its request to its response in one step.  The wall-clock timestamp *)
(* of a stored review is left out.                                         *)
(***************************************************************************)
\* the bodies of the requests: a review, or None for a body that lacks the
\* text or the rating, or a rating that int() rejects
ApiReviews ==
    {[text |-> Example2, rating |-> 3, blob |-> [ok |-> TRUE, polarity |-> 2]],
     [text |-> Example1, rating |-> 1, blob |-> [ok |-> TRUE, polarity |-> 3]],
     [text |-> Example3, rating |-> 4, blob |-> [ok |-> TRUE, polarity |-> 2]]}

ApiBodies ==
    {[fields |-> TRUE, int_ok |-> TRUE, review |-> r] : r \in ApiReviews}
    \cup {[fields |-> f, int_ok |-> i, review |-> CHOOSE r \in ApiReviews : r.rating = 3] :
            f \in BOOLEAN, i \in {FALSE}}

Predictions == {"fake", "suspicious", "genuine"}

\* lines 49-60: the review object, with the defaults of data.get
StoredReview(id, review, analysis) ==
    [id |-> id,
     product |-> "Unknown",
     reviewer |-> "Anonymous",
     rating |-> review.rating,
     text |-> review.text,
     prediction |-> analysis.prediction,
     confidence |-> analysis.confidence,
     features |-> analysis.features]

\* POST /api/analyze
api_analyze_review(data) ==
    /\ Len(reviews_storage) < MaxStored
    /\ IF ~data.fields
       THEN response' = 400 /\ UNCHANGED reviews_storage
       ELSE IF ~data.int_ok
       THEN response' = 500 /\ UNCHANGED reviews_storage
       ELSE LET analysis == analyze_review(FakeReviewDetector, data.review.text,
                                           data.review.blob, data.review.rating)
                review == StoredReview(Len(reviews_storage) + 1, data.review, analysis)
            IN  /\ reviews_storage' = Append(reviews_storage, review)
                /\ response' = 200
    /\ UNCHANGED <<detector, callVars>>

\* model.analyze_batch_reviews: every review of the list analysed on its own
analyze_batch_reviews(reviews) ==
    [i \in 1..Len(reviews) |->
        StoredReview(0, reviews[i],
                     analyze_review(FakeReviewDetector, reviews[i].text,
                                    reviews[i].blob, reviews[i].rating))]

\* lines 115-119: the reviews appended one by one, each with its id
RECURSIVE StoreAll(_, _)
StoreAll(storage, analyzed_reviews) ==
    IF analyzed_reviews = <<>> THEN storage
    ELSE StoreAll(Append(storage,
                         [Head(analyzed_reviews) EXCEPT !.id = Len(storage) + 1]),
                  Tail(analyzed_reviews))

\* POST /api/analyze-batch
analyze_batch(reviews) ==
    /\ Len(reviews_storage) + Len(reviews) <= MaxStored
    /\ IF Len(reviews) = 0
       THEN response' = 400 /\ UNCHANGED reviews_storage
       ELSE /\ reviews_storage' = StoreAll(reviews_storage, analyze_batch_reviews(reviews))
            /\ response' = 200
    /\ UNCHANGED <<detector, callVars>>

\* DELETE /api/reviews/<review_id>
delete_review(review_id) ==
    /\ reviews_storage' = SelectSeq(reviews_storage, LAMBDA r : r.id # review_id)
    /\ response' = 200
    /\ UNCHANGED <<detector, callVars>>

\* POST /api/reviews/bulk-delete
bulk_delete(prediction_type) ==
    /\ reviews_storage' =
           SelectSeq(reviews_storage, LAMBDA r : r.prediction # prediction_type)
    /\ response' = 200
    /\ UNCHANGED <<detector, callVars>>

\* POST /api/clear
clear_all ==
    /\ reviews_storage' = <<>>
    /\ response' = 200
    /\ UNCHANGED <<detector, callVars>>

BatchBodies ==
    UNION {[1..n -> ApiReviews] : n \in 0..MaxBatch}

NextStorage ==
    \/ \E data \in ApiBodies : api_analyze_review(data)
    \/ \E reviews \in BatchBodies : analyze_batch(reviews)
    \/ \E review_id \in 1..(MaxStored + 1) : delete_review(review_id)
    \/ \E prediction_type \in Predictions : bulk_delete(prediction_type)
    \/ clear_all

SpecStorage == Init /\ [][NextStorage]_vars

(***************************************************************************)
(* Properties.                                                             *)
(***************************************************************************)
Predicted(c) == pc[c] \in {"return", "done"}

MismatchHigh == "Rating-content mismatch (high rating, negative content)"

MismatchLow == "Rating-content mismatch (low rating, positive content)"

DetectorPcs ==
    {"length", "punctuation", "capitalization", "generic", "sentiment", "spam",
     "repeated", "diversity"}

\* C1: _calculate_prediction gives every score exactly one label: fake iff
\* score >= 60, suspicious iff 30 <= score < 60, genuine iff score < 30; so
\* 59 is suspicious, 60 fake, 29 genuine and 30 suspicious.
C1_Labels ==
    \A c \in Calls :
        Predicted(c) =>
            /\ prediction[c] \in {"fake", "suspicious", "genuine"}
            /\ prediction[c] = "fake" <=> score[c] >= 60
            /\ prediction[c] = "suspicious" <=> (30 <= score[c] /\ score[c] < 60)
            /\ prediction[c] = "genuine" <=> score[c] < 30
            /\ score[c] = 59 => prediction[c] = "suspicious"
            /\ score[c] = 60 => prediction[c] = "fake"
            /\ score[c] = 29 => prediction[c] = "genuine"
            /\ score[c] = 30 => prediction[c] = "suspicious"

C1_Witness == pc[1] = "return" /\ score[1] = 60 /\ prediction[1] = "fake"

\* C2: for every score, negative and far above 60 included, the confidence
\* _calculate_prediction returns is in [50, 99], and so is the rounded
\* confidence of the returned dict.
C2_ConfidenceRange ==
    \A c \in Calls :
        /\ Predicted(c) => (5000 <= confidence[c] /\ confidence[c] <= 9900)
        /\ pc[c] = "done" =>
               /\ 500 <= result[c].confidence /\ result[c].confidence <= 990
               /\ 10 * result[c].confidence = confidence[c]

C2_Witness == pc[1] = "done" /\ score[1] < -40 /\ result[1].confidence = 990

\* C3, as stated: on Example1 with rating 5 (TextBlob reporting a positive
\* polarity) analyze_review returns 'fake' with a score of at least 60 and a
\* confidence between 80 and 95.
C3_ExampleIsFake ==
    \A c \in Calls :
        (/\ pc[c] = "done"
         /\ review_text[c] = Example1
         /\ rating[c] = 5
         /\ blob[c].ok /\ blob[c].polarity > 0) =>
            /\ result[c].prediction = "fake"
            /\ result[c].score >= 60
            /\ 800 <= result[c].confidence /\ result[c].confidence <= 950

\* C3, amended: on Example1 with rating 5, unless TextBlob reports a polarity
\* below -0.2, analyze_review returns 'suspicious' with score 30 (20 for five
\* exclamation marks, 10 for two generic phrases, 0 for the sentiment) and
\* confidence 65.0.
C3_ExampleIsSuspicious ==
    \A c \in Calls :
        (/\ pc[c] = "done"
         /\ review_text[c] = Example1
         /\ rating[c] = 5
         /\ (~blob[c].ok \/ blob[c].polarity >= -2)) =>
            result[c] =
                [prediction |-> "suspicious",
                 confidence |-> 650,
                 score |-> 30,
                 features |->
                     [suspicious_patterns |-> <<"Excessive exclamation marks (5)">>,
                      positive_indicators |->
                          <<"Rating matches sentiment", "High vocabulary diversity">>,
                      warnings |-> <<"Generic phrase detected: best product ever">>]]

C3_Witness ==
    /\ pc[1] = "done"
    /\ review_text[1] = Example1
    /\ rating[1] = 5
    /\ blob[1] = [ok |-> TRUE, polarity |-> 3]
    /\ result[1].score = 30

\* the sentiment statement of call c is being executed
SentimentStep(c) == pc[c] = "sentiment" /\ pc'[c] # "sentiment"

\* C4, as stated: for a rating outside 1..5 the sentiment detector takes no
\* mismatch branch: it adds 0 to the score and appends no mismatch entry.
C4_OutOfRangeNeverMismatch ==
    [][\A c \in Calls :
          (SentimentStep(c) /\ rating[c] \notin 1..5) =>
              /\ pc'[c] = "spam"
              /\ score'[c] = score[c]
              /\ features'[c].suspicious_patterns = features[c].suspicious_patterns]_vars

\* C4, amended: for a rating outside 1..5 the sentiment detector raises no
\* error, and it takes the high-rating mismatch branch (35, one entry) for a
\* rating >= 6 exactly when neg_count > pos_count or polarity < -0.2, the
\* low-rating branch (35, one entry) for a rating <= 0 exactly when
\* pos_count > neg_count or polarity > 0.2, and otherwise adds 0 and appends
\* 'Rating matches sentiment' to the positive indicators.
C4_OutOfRangeMismatch ==
    [][\A c \in Calls :
          (SentimentStep(c) /\ rating[c] \notin 1..5) =>
              LET text_lower == StrLower(review_text[c])
                  pos_count == CountIn(FakeReviewDetector.positive_words, text_lower)
                  neg_count == CountIn(FakeReviewDetector.negative_words, text_lower)
                  polarity == IF blob[c].ok THEN blob[c].polarity ELSE 0
                  high == rating[c] >= 6 /\ (neg_count > pos_count \/ polarity < -2)
                  low == rating[c] <= 0 /\ (pos_count > neg_count \/ polarity > 2)
              IN  /\ pc'[c] = "spam"
                  /\ high =>
                         /\ score'[c] = score[c] + 35
                         /\ features'[c] = [features[c] EXCEPT !.suspicious_patterns =
                                               Append(@, MismatchHigh)]
                  /\ low =>
                         /\ score'[c] = score[c] + 35
                         /\ features'[c] = [features[c] EXCEPT !.suspicious_patterns =
                                               Append(@, MismatchLow)]
                  /\ ~(high \/ low) =>
                         /\ score'[c] = score[c]
                         /\ features'[c] = [features[c] EXCEPT !.positive_indicators =
                                               Append(@, "Rating matches sentiment")]]_vars

C4_Witness ==
    /\ pc[1] = "spam"
    /\ rating[1] = 6
    /\ features[1].suspicious_patterns # <<>>
    /\ features[1].suspicious_patterns[Len(features[1].suspicious_patterns)] = MismatchHigh

\* C5, as stated: no detector statement, whichever of its triggers is on,
\* decreases the score.
C5_NoDetectorDecreases ==
    [][\A c \in Calls : pc[c] \in DetectorPcs => score'[c] >= score[c]]_vars

\* C5, amended: every detector but the length detector adds 0 or more, so
\* none of their triggers decreases the score, and the short-text trigger adds
\* 30; the long-text trigger (length > 100) is the exception: it adds -10,
\* and decreases the score by 10.
C5_OnlyLongTextDecreases ==
    [][\A c \in Calls :
          /\ (pc[c] \in DetectorPcs \ {"length"}) => score'[c] >= score[c]
          /\ (pc[c] = "length" /\ pc'[c] # "length") =>
                 /\ Len(review_text[c]) > 100 <=> score'[c] = score[c] - 10
                 /\ Len(review_text[c]) < 20 <=> score'[c] = score[c] + 30
                 /\ score'[c] - score[c] \in {-10, 0, 30}]_vars

C5_Witness ==
    /\ pc[1] = "done"
    /\ Len(review_text[1]) > 100
    /\ result[1].features.positive_indicators[1] = "Detailed review"
    /\ result[1].score = 30

SameInput(c, d) ==
    /\ review_text[c] = review_text[d]
    /\ rating[c] = rating[d]
    /\ blob[c] = blob[d]

\* C6: a call's result depends on its own input only: whatever the
\* interleaving with other calls on the same detector, a finished call holds
\* the result analyze_review gives for its input alone, two finished calls
\* with the same input hold the same result, and the detector configuration
\* is the one __init__ set.
C6_Isolation ==
    /\ detector = FakeReviewDetector
    /\ \A c \in Calls :
           pc[c] = "done" =>
               result[c] = analyze_review(FakeReviewDetector, review_text[c], blob[c],
                                          rating[c])
    /\ \A c, d \in Calls :
           (pc[c] = "done" /\ pc[d] = "done" /\ SameInput(c, d)) => result[c] = result[d]

C6_Witness ==
    /\ pc[1] = "done" /\ pc[2] = "done"
    /\ SameInput(1, 2)
    /\ result[1].prediction = "fake"
    /\ result[2].prediction = "fake"

\* C7: right after the length detector (score and features start empty) one
\* of three cases holds: length < 20, score 30 and 'Very short review' the
\* only entry; length > 100, score -10 and 'Detailed review' the only entry;
\* length in [20, 100], score 0 and no entry.
C7_LengthOutcomes ==
    \A c \in Calls :
        pc[c] = "punctuation" =>
            LET length == Len(review_text[c])
            IN  /\ length < 20 =>
                       /\ score[c] = 30
                       /\ features[c] = [NewFeatures EXCEPT !.suspicious_patterns =
                                            <<"Very short review">>]
                /\ length > 100 =>
                       /\ score[c] = -10
                       /\ features[c] = [NewFeatures EXCEPT !.positive_indicators =
                                            <<"Detailed review">>]
                /\ (20 <= length /\ length <= 100) =>
                       /\ score[c] = 0
                       /\ features[c] = NewFeatures

C7_Witness ==
    /\ pc[1] = "punctuation"
    /\ Len(review_text[1]) = 100
    /\ score[1] = 0
    /\ features[1] = NewFeatures

\* C8: when TextBlob raises on the text, the call still runs to its end and
\* returns what it returns for the same text and rating with an analyzer
\* that reports polarity 0.
C8_AnalyzerFailureIsNeutral ==
    \A c \in Calls :
        (pc[c] = "done" /\ ~blob[c].ok) =>
            result[c] = analyze_review(FakeReviewDetector, review_text[c],
                                       [ok |-> TRUE, polarity |-> 0], rating[c])

C8_Witness ==
    /\ pc[1] = "done"
    /\ ~blob[1].ok
    /\ rating[1] = 5
    /\ result[1].score = 40
    /\ result[1].features.positive_indicators[1] = "Rating matches sentiment"
    /\ Len(result[1].features.suspicious_patterns) = 1

\* C9: no two reviews of reviews_storage have the same id.
C9_UniqueIds ==
    \A i, j \in 1..Len(reviews_storage) :
        i # j => reviews_storage[i].id # reviews_storage[j].id

\* C10: a returned verdict is backed by evidence: a score >= 30 (suspicious
\* or fake) comes with at least one suspicious pattern, a score >= 60 (fake)
\* with at least two, and a result without any has score <= 10 and is genuine.
C10_Evidence ==
    \A c \in Calls :
        pc[c] = "done" =>
            LET n == Len(result[c].features.suspicious_patterns)
            IN  /\ result[c].score >= 30 => n >= 1
                /\ result[c].prediction \in {"suspicious", "fake"} => n >= 1
                /\ result[c].score >= 60 => n >= 2
                /\ result[c].prediction = "fake" => n >= 2
                /\ n = 0 => (result[c].score <= 10 /\ result[c].prediction = "genuine")

C10_Witness ==
    /\ pc[1] = "done"
    /\ result[1].features.suspicious_patterns = <<>>
    /\ result[1].score = 10
    /\ result[1].features.warnings # <<>>

=============================================================================
